---------------------------- MODULE Spec2Model ----------------------------
(***************************************************************************)
(* QRHub server: the public scan pipeline GET /s/:shortCode.               *)
(*                                                                         *)
(* The model follows one request through the route's validation            *)
(* middleware, ScanController.scanAndRedirect and ScanService.processScan, *)
(* with the QRCode and QRScan collections as the shared store.  Every      *)
(* store call and every geolocation call is one step: these are the        *)
(* awaits of the code, the only places where requests interleave.  The     *)
(* code between two awaits runs in the step of the call that precedes it.  *)
(*                                                                         *)
(* Strings the code inspects (IP addresses, short codes) are sequences of  *)
(* one-character strings, so the regular expressions of the code are       *)
(* computed.  Time is in seconds; local midnight is a multiple of          *)
(* SecondsPerDay.  SHA-256 is modelled as injective: a fingerprint is the  *)
(* tuple of the hashed parts.                                              *)
(***************************************************************************)
EXTENDS Integers, Sequences, FiniteSets, TLC

None == "none"

(***************************************************************************)
(* Bounds of the model.                                                    *)
(***************************************************************************)
MaxRequests == 3
MaxInFlight == 2
MaxTicks == 2
MaxDayRequests == 2
MaxInputRequests == 1
MaxOwnerRequests == 2
MaxOwnerOps == 2
MaxBurstTicks == 2
MaxEndpointRequests == 2
MaxFailureRequests == 1
MaxManagers == 2
MaxManagementOps == 3

(***************************************************************************)
(* Program constants.                                                      *)
(***************************************************************************)
maxScansPerMinute == 10
RateWindowSeconds == 60
ShortCodeMin == 6
ShortCodeMax == 20
MAX_QR_CODES_PER_WEBSITE == 1
maxAttempts == 10
SecondsPerDay == 24 * 60 * 60

QR_STATUS == [ACTIVE |-> "active", INACTIVE |-> "inactive", ARCHIVED |-> "archived"]
DEVICE_TYPE == [IOS |-> "iOS", ANDROID |-> "Android", DESKTOP |-> "Desktop", OTHER_DEVICE |-> "Other"]
DEFAULT_LOCATION == [country |-> "Unknown", city |-> "Unknown", region |-> "Unknown"]

(***************************************************************************)
(* Characters and strings.                                                 *)
(***************************************************************************)
Digits == {"0", "1", "2", "3", "4", "5", "6", "7", "8", "9"}
HexLetters == {"a", "b", "c", "d", "e", "f", "A", "B", "C", "D", "E", "F"}
LowerAlphabet ==
    <<"a", "b", "c", "d", "e", "f", "g", "h", "i", "j", "k", "l", "m",
      "n", "o", "p", "q", "r", "s", "t", "u", "v", "w", "x", "y", "z">>
UpperAlphabet ==
    <<"A", "B", "C", "D", "E", "F", "G", "H", "I", "J", "K", "L", "M",
      "N", "O", "P", "Q", "R", "S", "T", "U", "V", "W", "X", "Y", "Z">>
LowerLetters == {LowerAlphabet[i] : i \in 1..Len(LowerAlphabet)}
UpperLetters == {UpperAlphabet[i] : i \in 1..Len(UpperAlphabet)}

DigitValue(c) ==
    CASE c = "0" -> 0 [] c = "1" -> 1 [] c = "2" -> 2 [] c = "3" -> 3
      [] c = "4" -> 4 [] c = "5" -> 5 [] c = "6" -> 6 [] c = "7" -> 7
      [] c = "8" -> 8 [] c = "9" -> 9

RECURSIVE parseInt(_)
parseInt(s) ==
    IF Len(s) = 0 THEN 0
    ELSE 10 * parseInt(SubSeq(s, 1, Len(s) - 1)) + DigitValue(s[Len(s)])

toLowerChar(c) ==
    IF c \in UpperLetters
    THEN LowerAlphabet[CHOOSE i \in 1..Len(UpperAlphabet) : UpperAlphabet[i] = c]
    ELSE c

toLowerCase(s) == [i \in 1..Len(s) |-> toLowerChar(s[i])]

RECURSIVE Split(_, _)
Split(s, sep) ==
    IF \A i \in 1..Len(s) : s[i] # sep
    THEN <<s>>
    ELSE LET k == CHOOSE i \in 1..Len(s) :
                      s[i] = sep /\ \A j \in 1..(i - 1) : s[j] # sep
         IN  <<SubSeq(s, 1, k - 1)>> \o Split(SubSeq(s, k + 1, Len(s)), sep)

AllIn(s, chars) == \A i \in 1..Len(s) : s[i] \in chars

StartsWith(s, prefix) ==
    Len(s) >= Len(prefix) /\ SubSeq(s, 1, Len(prefix)) = prefix

\* /^(\d{1,3}\.){3}\d{1,3}$/
ipv4Regex(v) ==
    LET parts == Split(v, ".")
    IN  /\ Len(parts) = 4
        /\ \A i \in 1..4 : Len(parts[i]) \in 1..3 /\ AllIn(parts[i], Digits)

\* /^([\da-fA-F]{1,4}:){7}[\da-fA-F]{1,4}$/
ipv6Regex(v) ==
    LET parts == Split(v, ":")
    IN  /\ Len(parts) = 8
        /\ \A i \in 1..8 :
              Len(parts[i]) \in 1..4 /\ AllIn(parts[i], Digits \cup HexLetters)

\* qrscanSchema.ipAddress: required, and the validator of the schema
ipAddressValid(v) == Len(v) > 0 /\ (ipv4Regex(v) \/ ipv6Regex(v))

isValidIP(ip) ==
    IF ipv4Regex(ip)
    THEN \A i \in 1..4 : parseInt(Split(ip, ".")[i]) \in 0..255
    ELSE ipv6Regex(ip)

isPrivateIP(ip) ==
    \/ StartsWith(ip, <<"1", "0", ".">>)
    \/ /\ StartsWith(ip, <<"1", "7", "2", ".">>)
       /\ Len(ip) >= 7
       /\ \/ ip[5] = "1" /\ ip[6] \in {"6", "7", "8", "9"}
          \/ ip[5] = "2" /\ ip[6] \in Digits
          \/ ip[5] = "3" /\ ip[6] \in {"0", "1"}
       /\ ip[7] = "."
    \/ StartsWith(ip, <<"1", "9", "2", ".", "1", "6", "8", ".">>)

isLocalIP(ip) ==
    \/ ip = <<"1", "2", "7", ".", "0", ".", "0", ".", "1">>
    \/ ip = <<"l", "o", "c", "a", "l", "h", "o", "s", "t">>
    \/ ip = <<":", ":", "1">>
    \/ StartsWith(ip, <<"1", "2", "7", ".">>)

\* Joi: string().required().min(6).max(20).pattern(/^[a-zA-Z0-9-]+$/)
\* a schema that checks the length and not the characters
shortCodeSchemaNoPattern(code) ==
    /\ Len(code) >= ShortCodeMin
    /\ Len(code) <= ShortCodeMax

shortCodeSchema(code) ==
    /\ Len(code) >= ShortCodeMin
    /\ Len(code) <= ShortCodeMax
    /\ AllIn(code, Digits \cup LowerLetters \cup UpperLetters \cup {"-"})

Trim(s) ==
    LET idx == {i \in 1..Len(s) : s[i] # " "}
    IN  IF idx = {} THEN <<>>
        ELSE SubSeq(s, CHOOSE i \in idx : \A j \in idx : i <= j,
                       CHOOSE i \in idx : \A j \in idx : i >= j)

(***************************************************************************)
(* Request data.                                                           *)
(***************************************************************************)
UNKNOWN == <<"U", "n", "k", "n", "o", "w", "n">>

\* getClientIP: x-forwarded-for, cf-connecting-ip, x-real-ip, req.ip, 'Unknown'
getClientIP(req) ==
    IF Len(req.forwarded) > 0
    THEN Trim(Split(req.forwarded, ",")[1])
    ELSE IF Len(req.cfConnectingIp) > 0
    THEN req.cfConnectingIp
    ELSE IF Len(req.realIp) > 0
    THEN req.realIp
    ELSE IF Len(req.ip) > 0
    THEN req.ip
    ELSE UNKNOWN

extractScanDataFromRequest(req) ==
    [ip        |-> getClientIP(req),
     userAgent |-> IF req.userAgent # "" THEN req.userAgent ELSE "Unknown"]

(***************************************************************************)
(* Device Classifier.  UAParserResult is what ua-parser-js reports for     *)
(* the user-agent strings of the model: the form factor and the OS name.   *)
(***************************************************************************)
UA_IPHONE == "Mozilla/5.0 (iPhone; CPU iPhone OS 15_1 like Mac OS X) Safari"
UA_ANDROID == "Mozilla/5.0 (Linux; Android 12; Pixel 6) Chrome Mobile"
UA_WINDOWS == "Mozilla/5.0 (Windows NT 10.0; Win64; x64) Chrome"
UA_SMARTTV == "Mozilla/5.0 (SMART-TV; Linux; Tizen 5.0) TV Safari"
UA_MALFORMED == "%%%"

UAParserResult(ua) ==
    CASE ua = UA_IPHONE  -> [type |-> "mobile",  os |-> "iOS",     browser |-> "Mobile Safari"]
      [] ua = UA_ANDROID -> [type |-> "mobile",  os |-> "Android", browser |-> "Chrome"]
      [] ua = UA_WINDOWS -> [type |-> None,      os |-> "Windows", browser |-> "Chrome"]
      [] ua = UA_SMARTTV -> [type |-> "smarttv", os |-> "Tizen",   browser |-> "Safari"]
      [] OTHER           -> [type |-> None,      os |-> None,      browser |-> None]

\* a classifier that takes every device without a form factor for a desktop
detectDeviceTypeByFormFactor(parsedResult) ==
    LET deviceType == parsedResult.type
        osName     == parsedResult.os
    IN  IF deviceType = "mobile" \/ deviceType = "tablet"
        THEN IF osName = "iOS" THEN DEVICE_TYPE.IOS
             ELSE IF osName = "Android" THEN DEVICE_TYPE.ANDROID
             ELSE DEVICE_TYPE.OTHER_DEVICE
        ELSE IF deviceType = None \/ deviceType = "desktop"
        THEN DEVICE_TYPE.DESKTOP
        ELSE DEVICE_TYPE.OTHER_DEVICE

detectDeviceType(parsedResult) ==
    LET deviceType == parsedResult.type
        osName     == parsedResult.os
    IN  IF deviceType = "mobile" \/ deviceType = "tablet"
        THEN IF osName = "iOS" THEN DEVICE_TYPE.IOS
             ELSE IF osName = "Android" THEN DEVICE_TYPE.ANDROID
             ELSE DEVICE_TYPE.OTHER_DEVICE
        ELSE IF deviceType = None \/ deviceType = "desktop"
        THEN IF osName = "iOS" THEN DEVICE_TYPE.IOS
             ELSE IF osName = "Android" THEN DEVICE_TYPE.ANDROID
             ELSE DEVICE_TYPE.DESKTOP
        ELSE DEVICE_TYPE.OTHER_DEVICE

getDefaultDeviceInfo(userAgentString) ==
    [device    |-> DEVICE_TYPE.OTHER_DEVICE,
     browser   |-> "Unknown",
     os        |-> "Unknown",
     userAgent |-> IF userAgentString # "" THEN userAgentString ELSE "Unknown"]

formatOS(os) == IF os = None THEN "Unknown" ELSE os

\* a user-agent argument that is not a string
NOT_A_STRING == "[object Object]"

\* parser is the outcome of new UAParser(ua).getResult(): "ok" or "throws";
\* result is what it returns
parseUserAgentWith(userAgentString, parser, result) ==
    IF userAgentString = "" \/ userAgentString = NOT_A_STRING
    THEN getDefaultDeviceInfo(userAgentString)
    ELSE IF parser = "throws"
    THEN getDefaultDeviceInfo(userAgentString)
    ELSE [device    |-> detectDeviceType(result),
          browser   |-> IF result.browser # None THEN result.browser ELSE "Unknown",
          os        |-> formatOS(result.os),
          userAgent |-> userAgentString]

parseUserAgent(userAgentString, parser) ==
    parseUserAgentWith(userAgentString, parser, UAParserResult(userAgentString))

getDeviceInfo(userAgent, parser) ==
    IF userAgent = ""
    THEN [device |-> "Other", browser |-> "Unknown", os |-> "Unknown",
          userAgent |-> "Unknown"]
    ELSE parseUserAgent(userAgent, parser)

(***************************************************************************)
(* Geolocation Resolver.  A provider call ends "ok", "fail" (the primary   *)
(* provider's status field) or "error" (timeout, network error, non-2xx).  *)
(***************************************************************************)
\* axios.get(url, {timeout: REQUEST_TIMEOUT}): a provider that stays silent
\* is abandoned when the timeout elapses, and the call throws
TIMEOUT == "timeout"

ProviderLocation == [country |-> "Ukraine", city |-> "Kyiv", region |-> "Kyiv City"]
LocalLocation == [DEFAULT_LOCATION EXCEPT !.country = "Local", !.city = "Local"]

\* the part of getLocationFromIP before the first provider call
geoPrecheck(ip) ==
    IF Len(ip) = 0 \/ ~isValidIP(ip) THEN "default"
    ELSE IF isPrivateIP(ip) \/ isLocalIP(ip) THEN "local"
    ELSE "fetch"

\* getGeoInfo's mapping of the resolver's answer
geoInfoOf(location) ==
    [country |-> IF location.country # "" THEN location.country ELSE "Unknown",
     city    |-> IF location.city # "" THEN location.city ELSE "Unknown",
     region  |-> IF location.region # "" THEN location.region ELSE "Unknown"]

(***************************************************************************)
(* Fingerprint Deriver.                                                    *)
(***************************************************************************)
\* YYYY-MM-DD of the local date: one value per calendar day
formatDateForFingerprint(date) == date \div SecondsPerDay

\* rnd stands for crypto.randomBytes(32)
generateFingerprint(ip, userAgent, date, rnd) ==
    IF Len(ip) = 0 \/ userAgent = ""
    THEN <<"random", <<>>, "", rnd>>
    ELSE <<"sha256", ip, userAgent, formatDateForFingerprint(date)>>

(***************************************************************************)
(* Responses.                                                              *)
(***************************************************************************)
MSG_NO_SHORTCODE == "QR code not found"
MSG_RATE_LIMIT == "Too many requests. Try again later."
MSG_NOT_FOUND == "QR code not found or inactive"
MSG_VALIDATION == "Validation error"

renderErrorPage(message) == [status |-> 404, kind |-> "html", body |-> message]
redirect(targetUrl) == [status |-> 302, kind |-> "redirect", body |-> targetUrl]
\* scanWithPreview: res.status(200).json(...) and res.status(404).json(...)
previewOk(targetUrl) == [status |-> 200, kind |-> "json", body |-> targetUrl]
previewError == [status |-> 404, kind |-> "json", body |-> MSG_NOT_FOUND]
\* validateMiddleware -> next(ValidationError) -> errorMiddleware
validationErrorResponse == [status |-> 422, kind |-> "json", body |-> MSG_VALIDATION]

(***************************************************************************)
(* The store: the QRCode collection and the QRScan collection.             *)
(***************************************************************************)
VARIABLES
    qrcodes,    \* QRCode documents by _id
    scans,      \* QRScan documents in insertion order
    req,        \* the requests in flight, by handler slot
    now,        \* the wall clock, in seconds
    started,    \* number of requests received so far
    owner,      \* the owner's management call in progress
    ownerOps,   \* number of management calls started so far
    counted,    \* number of counter saves that returned without error
    parsed      \* the last call of parseUserAgent: its input and its result

vars == <<qrcodes, scans, req, now, started, owner, ownerOps, counted, parsed>>

\* An ObjectId is 24 hex characters.
QR1 == <<"6", "5", "f", "0", "0", "0", "0", "0", "0", "0", "0", "0",
         "0", "0", "0", "0", "0", "0", "0", "0", "0", "0", "0", "1">>
\* the _id of the n-th QRCode document
QRId(n) == [QR1 EXCEPT ![24] = CHOOSE c \in Digits : DigitValue(c) = n]
\* the _ids of the QRCode collection
QRIds == DOMAIN qrcodes

WEBSITE_1 == "website-1"
WEBSITE_2 == "website-2"
IMAGE_URL == "qrcodes/qrcode.png"
IMAGE_URL_NEW == "qrcodes/qrcode-regenerated.png"

isObjectId(v) == Len(v) = 24 /\ AllIn(v, Digits \cup HexLetters)

CODE_MENU == <<"a", "b", "c", "1", "2", "3", "4", "5">>
CODE_MENU_UPPER == <<"A", "B", "C", "1", "2", "3", "4", "5">>
CODE_MISSING == <<"z", "z", "z", "9", "9", "9", "9", "9">>
CODE_SHORT == <<"a", "b">>
CODE_LONG == <<"a", "b", "c", "1", "2", "3", "4", "5", "a", "b", "c", "1", "2", "3",
               "4", "5", "a", "b", "c", "1", "2">>
CODE_BADCHAR == <<"a", "b", "c", "_", "1", "2", "3", "4">>
CODE_NEW == <<"x", "y", "7", "K", "m", "p", "3", "q">>
CODE_LONGER == <<"x", "y", "7", "K", "m", "p", "3", "q", "4", "t">>

URL_MENU == "https://example.com/menu"
URL_NEW == "https://example.com/new"

\* "no document" (null), "no date" (null) and the fields of a request that
\* are not computed yet
NoDate == 0 - 1
NoDoc == [found |-> FALSE, id |-> <<>>, status |-> "", isActive |-> FALSE,
          targetUrl |-> "", totalScans |-> 0, uniqueScans |-> 0,
          lastScanAt |-> NoDate]
NoDevice == [device |-> "", browser |-> "", os |-> "", userAgent |-> ""]
NoGeo == [country |-> "", city |-> "", region |-> ""]
NoResponse == [status |-> 0, kind |-> "none", body |-> ""]

isActiveStatus(doc) == doc.status = QR_STATUS.ACTIVE /\ doc.isActive

\* QRCode.findByShortCode: the matching document (with its _id) or None
findByShortCode(shortCode) ==
    LET hits == {id \in QRIds :
                    /\ qrcodes[id].shortCode = toLowerCase(shortCode)
                    /\ qrcodes[id].isActive = TRUE
                    /\ qrcodes[id].status = QR_STATUS.ACTIVE}
    IN  IF hits = {} THEN NoDoc
        ELSE LET id == CHOOSE h \in hits : TRUE
             IN  [found       |-> TRUE,
                  id          |-> id,
                  status      |-> qrcodes[id].status,
                  isActive    |-> qrcodes[id].isActive,
                  targetUrl   |-> qrcodes[id].targetUrl,
                  totalScans  |-> qrcodes[id].totalScans,
                  uniqueScans |-> qrcodes[id].uniqueScans,
                  lastScanAt  |-> qrcodes[id].lastScanAt]

\* a resolver that returns the document a short code names whatever its
\* lifecycle state
findAnyQRCode(shortCode) ==
    LET named == {id \in QRIds : qrcodes[id].shortCode = toLowerCase(shortCode)}
    IN  IF named = {} THEN NoDoc
        ELSE LET id == CHOOSE h \in named : TRUE
             IN  [found       |-> TRUE,
                  id          |-> id,
                  status      |-> qrcodes[id].status,
                  isActive    |-> qrcodes[id].isActive,
                  targetUrl   |-> qrcodes[id].targetUrl,
                  totalScans  |-> qrcodes[id].totalScans,
                  uniqueScans |-> qrcodes[id].uniqueScans,
                  lastScanAt  |-> qrcodes[id].lastScanAt]

\* ScanService.findActiveQRCode
findActiveQRCode(shortCode) ==
    LET qrcode == findByShortCode(shortCode)
    IN  IF ~qrcode.found THEN NoDoc
        ELSE IF ~isActiveStatus(qrcode) THEN NoDoc
        ELSE qrcode

\* QRScan.countDocuments({qrCodeId, ipAddress, scannedAt: {$gte: since}})
countRecent(qrCodeId, ip, since) ==
    Cardinality({i \in 1..Len(scans) :
                    /\ scans[i].qrCodeId = qrCodeId
                    /\ scans[i].ipAddress = ip
                    /\ scans[i].scannedAt >= since})

\* a limiter that denies the scan when its count query fails
isRateLimitAllowedFailClosed(ip, qrCodeId, oneMinuteAgo, outcome) ==
    IF outcome = "error" THEN FALSE
    ELSE IF ~isObjectId(qrCodeId) THEN TRUE
    ELSE ~(countRecent(qrCodeId, ip, oneMinuteAgo) >= maxScansPerMinute)

\* A qrCodeId that is no ObjectId makes the query throw a CastError (or, with
\* a driver that accepts 12-byte strings, match no document): both end in
\* "allowed".  outcome is the store's answer to the count: "ok" or "error".
\* oneMinuteAgo is computed before the count is awaited.
oneMinuteAgoAt(date) == date - RateWindowSeconds

isRateLimitAllowed(ip, qrCodeId, oneMinuteAgo, outcome) ==
    IF outcome = "error" \/ ~isObjectId(qrCodeId)
    THEN TRUE
    ELSE LET recentScans == countRecent(qrCodeId, ip, oneMinuteAgo)
         IN  ~(recentScans >= maxScansPerMinute)

\* the argument scanAndRedirect passes as qrCodeId
rateLimitKey(shortCode) == shortCode

\* QRScan.isUniqueScanToday: today is new Date() with setHours(0, 0, 0, 0),
\* computed before the findOne is awaited
startOfDay(date) == date - (date % SecondsPerDay)

isUniqueScanToday(qrCodeId, fingerprint, today) ==
    ~ \E i \in 1..Len(scans) :
          /\ scans[i].qrCodeId = qrCodeId
          /\ scans[i].fingerprint = fingerprint
          /\ scans[i].scannedAt >= today

\* an isUniqueScan that counts a failed read as a repeated scan
isUniqueScanPessimistic(qrCodeId, fingerprint, today, outcome) ==
    IF outcome = "error" THEN FALSE
    ELSE isUniqueScanToday(qrCodeId, fingerprint, today)

\* ScanService.isUniqueScan: a failed read counts as unique
isUniqueScan(qrCodeId, fingerprint, today, outcome) ==
    IF outcome = "error" THEN TRUE
    ELSE isUniqueScanToday(qrCodeId, fingerprint, today)

\* QRScan.countByQRCode and QRScan.countUniqueByQRCode (distinct fingerprints)
countByQRCode(qrCodeId) ==
    Cardinality({i \in 1..Len(scans) : scans[i].qrCodeId = qrCodeId})

countUniqueByQRCode(qrCodeId) ==
    Cardinality({scans[i].fingerprint :
                    i \in {j \in 1..Len(scans) : scans[j].qrCodeId = qrCodeId}})

\* the document createScanRecord hands to QRScan.create
scanDocument(r) ==
    [qrCodeId    |-> req[r].doc.id,
     scannedAt   |-> req[r].scannedAt,
     country     |-> req[r].geo.country,
     city        |-> req[r].geo.city,
     ipAddress   |-> req[r].ip,
     device      |-> req[r].device.device,
     userAgent   |-> req[r].device.userAgent,
     fingerprint |-> req[r].fp]

\* the schema validation QRScan.create runs before the insert
qrscanValid(doc) ==
    /\ ipAddressValid(Trim(doc.ipAddress))
    /\ doc.userAgent # ""
    /\ doc.device \in {DEVICE_TYPE.IOS, DEVICE_TYPE.ANDROID,
                       DEVICE_TYPE.DESKTOP, DEVICE_TYPE.OTHER_DEVICE}

\* an incrementScans whose save() writes the whole document as it was loaded
incrementScansWholeDocument(doc, isUnique, date) ==
    [qrcodes EXCEPT ![doc.id].totalScans  = doc.totalScans + 1,
                    ![doc.id].uniqueScans = IF isUnique THEN doc.uniqueScans + 1
                                            ELSE doc.uniqueScans,
                    ![doc.id].lastScanAt  = date,
                    ![doc.id].status      = doc.status,
                    ![doc.id].isActive    = doc.isActive,
                    ![doc.id].targetUrl   = doc.targetUrl]

\* qrcode.incrementScans(isUnique): the $set that save() sends holds the paths
\* the method assigned, computed from the document as it was loaded; date is
\* the new Date() the method read before it awaited save()
incrementScans(doc, isUnique, date) ==
    IF isUnique
    THEN [qrcodes EXCEPT ![doc.id].totalScans  = doc.totalScans + 1,
                         ![doc.id].uniqueScans = doc.uniqueScans + 1,
                         ![doc.id].lastScanAt  = date]
    ELSE [qrcodes EXCEPT ![doc.id].totalScans  = doc.totalScans + 1,
                         ![doc.id].lastScanAt  = date]

(***************************************************************************)
(* Initial state: one active QR code, no scans, nothing in flight.         *)
(***************************************************************************)
IdleRequest ==
    [pc |-> "idle", endpoint |-> "", shortCode |-> <<>>, ip |-> <<>>,
     userAgent |-> "",
     doc |-> NoDoc, device |-> NoDevice, geo |-> NoGeo, fp |-> <<>>,
     isUnique |-> FALSE, scanId |-> 0, res |-> NoResponse, log |-> <<>>,
     \* the clock reads of the request, each made before the await it feeds
     oneMinuteAgo |-> NoDate, today |-> NoDate, scannedAt |-> NoDate,
     lastScanAt |-> NoDate,
     \* history of the request, read by the properties only
     startedAt |-> 0, scansAtStart |-> 0, faults |-> {}, geoCalls |-> <<>>,
     lifecycle |-> "", failedAt |-> ""]

\* a management call: its arguments, its locals and how it ended
NoParsed == [userAgent |-> "", parser |-> "",
             result |-> [type |-> "", os |-> "", browser |-> ""],
             info |-> NoDevice]

IdleOwner == [pc |-> "idle", op |-> "", id |-> <<>>, arg |-> "",
              loaded |-> "", code |-> <<>>, attempt |-> 0, longer |-> FALSE,
              result |-> ""]

InitWith(e) ==
    /\ qrcodes = [id \in {QR1} |->
                    [websiteId   |-> WEBSITE_1,
                     shortCode   |-> CODE_MENU,
                     targetUrl   |-> URL_MENU,
                     qrImageUrl  |-> IMAGE_URL,
                     status      |-> QR_STATUS.ACTIVE,
                     isActive    |-> TRUE,
                     deletedAt   |-> NoDate,
                     totalScans  |-> 0,
                     uniqueScans |-> 0,
                     lastScanAt  |-> NoDate]]
    /\ scans = <<>>
    /\ req = [r \in 1..e.inflight |-> IdleRequest]
    /\ now = 0
    /\ started = 0
    /\ owner = [o \in 1..e.owners |-> IdleOwner]
    /\ ownerOps = 0
    /\ counted = 0
    /\ parsed = NoParsed

(***************************************************************************)
(* A scan request: GET /s/:shortCode.                                      *)
(*                                                                         *)
(* e is the environment of a specification: the requests clients send,     *)
(* the answers the store, the user-agent parser and the geolocation        *)
(* providers may give, and the bounds of the run.  An action is the answer *)
(* to the call the request awaits, followed by the code that runs up to    *)
(* the next await.                                                         *)
(***************************************************************************)
\* a catch block that redirects to the loaded target instead of rendering
\* the error page
rejectedWithRedirect(q, message) ==
    [q EXCEPT !.pc = "done", !.res = redirect(q.doc.targetUrl),
              !.log = Append(q.log, "REJECTED"), !.failedAt = q.pc]

\* a catch block that logs the error and sends no response
rejectedSilently(q, message) ==
    [q EXCEPT !.failedAt = q.pc]

\* the end of a rejected request: the catch block of scanAndRedirect, and
\* the catch block of scanWithPreview
rejected(q, message) ==
    [q EXCEPT !.pc = "done",
              !.res = IF q.endpoint = "preview" THEN previewError
                      ELSE renderErrorPage(message),
              !.log = Append(q.log, "REJECTED"), !.failedAt = q.pc]

\* the lifecycle state of the QR code a short code names, whatever its state
lifecycleOf(shortCode) ==
    LET named == {id \in QRIds : qrcodes[id].shortCode = toLowerCase(shortCode)}
    IN  IF named = {} THEN "missing"
        ELSE LET c == qrcodes[CHOOSE id \in named : TRUE]
             IN  IF ~c.isActive THEN "deleted"
                 ELSE c.status

\* an updateQRCodeStats that rethrows a failed save
redirectedUnlessSaveFailed(q, outcome) ==
    IF outcome = "error"
    THEN [q EXCEPT !.pc = "done", !.res = renderErrorPage(MSG_NOT_FOUND),
                   !.faults = @ \cup {"stats"},
                   !.log = Append(@, "REJECTED"), !.failedAt = q.pc]
    ELSE [q EXCEPT !.pc = "done", !.res = redirect(q.doc.targetUrl),
                   !.log = @ \o <<"COUNTERS_UPDATED", "REDIRECTED">>]

\* the end of a request whose counters step has returned: updateQRCodeStats
\* never throws, processScan returns its result and scanAndRedirect redirects
redirected(q, outcome) ==
    [q EXCEPT !.pc = "done",
              !.res = IF q.endpoint = "preview" THEN previewOk(q.doc.targetUrl)
                      ELSE redirect(q.doc.targetUrl),
              !.faults = IF outcome = "error" THEN @ \cup {"stats"} ELSE @,
              !.log = IF outcome = "ok"
                      THEN @ \o <<"COUNTERS_UPDATED", "REDIRECTED">>
                      ELSE Append(@, "REDIRECTED")]

\* the code that runs when getGeoInfo has returned: step 3 of processScan
\* derives the fingerprint and step 4 starts the uniqueness read
\* processScan reads new Date() for the fingerprint, isUniqueScanToday reads
\* its own new Date() for today: later is the second read
afterGeo(q, location, later) ==
    [q EXCEPT !.pc  = "unique",
              !.geo = geoInfoOf(location),
              !.fp  = generateFingerprint(q.ip, q.userAgent, now, started),
              !.today = startOfDay(later)]

\* the values a second clock read of one synchronous run may return
ClockReads(e) ==
    IF now + e.tick <= e.ticks * e.tick THEN {now, now + e.tick} ELSE {now}

\* the clock after a step of request r that may have read it twice
clockAfter(r, nextReq, later) ==
    IF nextReq[r].pc = "unique" THEN later ELSE now

\* validateParams(shortCodeSchema), then scanAndRedirect up to its first
\* await, or scanWithPreview up to its first await: processScan's lookup
Receive(e, r) ==
    /\ req[r].pc \in {"idle", "done"}
    /\ started < e.budget
    /\ \E input \in e.requests :
          LET scanData == extractScanDataFromRequest(input)
              fresh == [IdleRequest EXCEPT !.endpoint = input.endpoint,
                                           !.shortCode = input.shortCode,
                                           !.startedAt = now,
                                           !.scansAtStart = Len(scans)]
          IN  req' = [req EXCEPT ![r] =
                  IF ~shortCodeSchema(input.shortCode)
                  THEN [fresh EXCEPT !.pc = "done",
                                     !.res = validationErrorResponse,
                                     !.log = <<"REJECTED">>]
                  ELSE IF input.endpoint = "redirect" /\ Len(input.shortCode) = 0
                  THEN rejected([fresh EXCEPT !.log = <<"RECEIVED">>], MSG_NO_SHORTCODE)
                  ELSE IF input.endpoint = "preview"
                  THEN [fresh EXCEPT !.pc = "resolve",
                                     !.ip = scanData.ip,
                                     !.userAgent = scanData.userAgent,
                                     !.log = <<"RECEIVED">>]
                  ELSE [fresh EXCEPT !.pc = "rate",
                                     !.ip = scanData.ip,
                                     !.userAgent = scanData.userAgent,
                                     !.oneMinuteAgo = oneMinuteAgoAt(now),
                                     !.log = <<"RECEIVED">>]]
    /\ started' = started + 1
    /\ UNCHANGED <<parsed, qrcodes, scans, now, owner, ownerOps, counted>>

\* scanAndRedirect: await isRateLimitAllowed(scanData.ip, shortCode)
RateCheck(e, r) ==
    /\ req[r].pc = "rate"
    /\ \E outcome \in e.store :
          LET q == [req[r] EXCEPT !.log = Append(@, "RATE_CHECKED"),
                                  !.faults = IF outcome = "error"
                                             THEN @ \cup {"rate"} ELSE @]
              isAllowed == isRateLimitAllowed(q.ip, rateLimitKey(q.shortCode),
                                              q.oneMinuteAgo, outcome)
          IN  req' = [req EXCEPT ![r] =
                  IF ~isAllowed
                  THEN rejected(q, MSG_RATE_LIMIT)
                  ELSE [q EXCEPT !.pc = "resolve"]]
    /\ UNCHANGED <<parsed, qrcodes, scans, now, started, owner, ownerOps, counted>>

\* a lookup that counts a hit on the QR code the short code names before it
\* looks at the code's lifecycle state
ResolveCountingHits(e, r) ==
    /\ req[r].pc = "resolve"
    /\ LET named == {id \in QRIds :
                        qrcodes[id].shortCode = toLowerCase(req[r].shortCode)}
       IN  qrcodes' = [id \in QRIds |->
                         IF id \in named
                         THEN [qrcodes[id] EXCEPT !.totalScans = @ + 1]
                         ELSE qrcodes[id]]
    /\ req' = [req EXCEPT ![r] =
                  rejected([@ EXCEPT !.lifecycle = lifecycleOf(req[r].shortCode)],
                           MSG_NOT_FOUND)]
    /\ UNCHANGED <<parsed, scans, now, started, owner, ownerOps, counted>>

\* processScan steps 1 and 2: findActiveQRCode, getDeviceInfo, and getGeoInfo
\* up to the first provider call
Resolve(e, r) ==
    /\ req[r].pc = "resolve"
    /\ \E outcome \in e.store, parser \in e.parser, later \in ClockReads(e) :
          LET qrcode == findActiveQRCode(req[r].shortCode)
              q == [req[r] EXCEPT !.faults = IF outcome = "error"
                                             THEN @ \cup {"resolve"} ELSE @,
                                  !.lifecycle = lifecycleOf(req[r].shortCode)]
          IN  /\ req' = [req EXCEPT ![r] =
                  IF outcome = "error" \/ ~qrcode.found
                  THEN rejected(q, MSG_NOT_FOUND)
                  ELSE LET q2 == [q EXCEPT
                                    !.doc = qrcode,
                                    !.device = getDeviceInfo(q.userAgent, parser),
                                    !.faults = IF parser = "throws"
                                               THEN @ \cup {"parser"} ELSE @,
                                    !.log = Append(@, "CODE_RESOLVED")]
                           pre == geoPrecheck(q.ip)
                       IN  IF pre = "default"
                           THEN afterGeo(q2, DEFAULT_LOCATION, later)
                           ELSE IF pre = "local"
                           THEN afterGeo(q2, LocalLocation, later)
                           ELSE [q2 EXCEPT !.pc = "geo1"]]
              /\ now' = clockAfter(r, req', later)
    /\ UNCHANGED <<parsed, qrcodes, scans, started, owner, ownerOps, counted>>

\* getLocationFromIP: the answer of fetchFromPrimaryAPI
GeoPrimary(e, r) ==
    /\ req[r].pc = "geo1"
    /\ \E answer \in e.primary, later \in ClockReads(e) :
          LET q == [req[r] EXCEPT !.geoCalls = Append(@, <<"primary", answer>>)]
          IN  /\ req' = [req EXCEPT ![r] =
                    IF answer = "ok" THEN afterGeo(q, ProviderLocation, later)
                    ELSE IF answer = "fail"
                    THEN afterGeo(q, DEFAULT_LOCATION, later)
                    ELSE [q EXCEPT !.pc = "geo2"]]
              /\ now' = clockAfter(r, req', later)
    /\ UNCHANGED <<parsed, qrcodes, scans, started, owner, ownerOps, counted>>

\* getLocationFromIP: the answer of fetchFromBackupAPI
GeoBackup(e, r) ==
    /\ req[r].pc = "geo2"
    /\ \E answer \in e.backup, later \in ClockReads(e) :
          LET q == [req[r] EXCEPT !.geoCalls = Append(@, <<"backup", answer>>)]
          IN  /\ req' = [req EXCEPT ![r] =
                    IF answer = "ok" THEN afterGeo(q, ProviderLocation, later)
                    ELSE afterGeo(q, DEFAULT_LOCATION, later)]
              /\ now' = clockAfter(r, req', later)
    /\ UNCHANGED <<parsed, qrcodes, scans, started, owner, ownerOps, counted>>

\* processScan step 4: isUniqueScan; then createScanRecord reads the clock
\* for scannedAt and starts the insert
Unique(e, r) ==
    /\ req[r].pc = "unique"
    /\ \E outcome \in e.store :
          req' = [req EXCEPT ![r] =
                  [@ EXCEPT !.pc = "record",
                            !.isUnique = isUniqueScan(req[r].doc.id, req[r].fp,
                                                      req[r].today, outcome),
                            !.scannedAt = now,
                            !.faults = IF outcome = "error"
                                       THEN @ \cup {"unique"} ELSE @]]
    /\ UNCHANGED <<parsed, qrcodes, scans, now, started, owner, ownerOps, counted>>

\* a createScanRecord that writes by upsert on (qrCodeId, fingerprint): the
\* event of a request replaces the stored event of the same client and day
RecordUpsert(e, r) ==
    /\ req[r].pc = "record"
    /\ \E outcome \in e.store :
          LET document == scanDocument(r)
              created  == outcome = "ok" /\ qrscanValid(document)
              same == {i \in 1..Len(scans) :
                          /\ scans[i].qrCodeId = document.qrCodeId
                          /\ scans[i].fingerprint = document.fingerprint}
              at == IF same = {} THEN Len(scans) + 1 ELSE CHOOSE i \in same : TRUE
              q == [req[r] EXCEPT !.faults = IF outcome = "error"
                                             THEN @ \cup {"record"} ELSE @]
          IN  /\ scans' = IF ~created THEN scans
                          ELSE IF same = {} THEN Append(scans, document)
                          ELSE [scans EXCEPT ![at] = document]
              /\ req' = [req EXCEPT ![r] =
                    IF created
                    THEN [q EXCEPT !.pc = "stats",
                                   !.scanId = at,
                                   !.lastScanAt = now,
                                   !.log = Append(@, "RECORDED")]
                    ELSE rejected(q, MSG_NOT_FOUND)]
    /\ UNCHANGED <<parsed, qrcodes, now, started, owner, ownerOps, counted>>

\* processScan step 5: createScanRecord; a failure reaches the catch block
\* of scanAndRedirect; after the insert incrementScans assigns the counters
\* and lastScanAt and starts the save
Record(e, r) ==
    /\ req[r].pc = "record"
    /\ \E outcome \in e.store :
          LET document == scanDocument(r)
              created  == outcome = "ok" /\ qrscanValid(document)
              q == [req[r] EXCEPT !.faults = IF outcome = "error"
                                             THEN @ \cup {"record"} ELSE @]
          IN  /\ scans' = IF created THEN Append(scans, document) ELSE scans
              /\ req' = [req EXCEPT ![r] =
                    IF created
                    THEN [q EXCEPT !.pc = "stats",
                                   !.scanId = Len(scans) + 1,
                                   !.lastScanAt = now,
                                   !.log = Append(@, "RECORDED")]
                    ELSE rejected(q, MSG_NOT_FOUND)]
    /\ UNCHANGED <<parsed, qrcodes, now, started, owner, ownerOps, counted>>

\* processScan step 6: updateQRCodeStats swallows a failed save; then the
\* result goes back to scanAndRedirect, which redirects
Stats(e, r) ==
    /\ req[r].pc = "stats"
    /\ \E outcome \in e.store :
          /\ qrcodes' = IF outcome = "ok"
                        THEN incrementScans(req[r].doc, req[r].isUnique,
                                             req[r].lastScanAt)
                        ELSE qrcodes
          /\ counted' = IF outcome = "ok" THEN counted + 1 ELSE counted
          /\ req' = [req EXCEPT ![r] = redirected(@, outcome)]
    /\ UNCHANGED <<parsed, scans, now, started, owner, ownerOps>>

\* a call of parseUserAgent
Classify(e) ==
    /\ \E ua \in e.userAgents, parser \in e.parser, result \in e.results :
          parsed' = [userAgent |-> ua, parser |-> parser, result |-> result,
                     info |-> parseUserAgentWith(ua, parser, result)]
    /\ UNCHANGED <<qrcodes, scans, req, now, started, owner, ownerOps, counted>>

\* the wall clock advances
Tick(e) ==
    /\ now + e.tick <= e.ticks * e.tick
    /\ now' = now + e.tick
    /\ UNCHANGED <<parsed, qrcodes, scans, req, started, owner, ownerOps, counted>>

(***************************************************************************)
(* Management calls of QRCodeService, one per owner slot.  Each await of  *)
(* the service is a step.                                                  *)
(***************************************************************************)
OwnerCalls ==
    {[op |-> "deactivate", arg |-> ""],
     [op |-> "activate",   arg |-> ""],
     [op |-> "delete",     arg |-> ""],
     [op |-> "status",     arg |-> QR_STATUS.ARCHIVED],
     [op |-> "status",     arg |-> QR_STATUS.ACTIVE],
     [op |-> "targetUrl",  arg |-> URL_NEW]}

\* the calls of the management API: createQRCode for a website, and the
\* calls on an existing QR code
ManagementCalls ==
    {[op |-> "create",     arg |-> WEBSITE_1],
     [op |-> "create",     arg |-> WEBSITE_2],
     [op |-> "activate",   arg |-> ""],
     [op |-> "toggle",     arg |-> ""],
     [op |-> "delete",     arg |-> ""],
     [op |-> "regenerate", arg |-> ""],
     [op |-> "status",     arg |-> QR_STATUS.ARCHIVED]}

\* the end of a management call: the slot is free, its record tells how the
\* call ended
ended(call, result) == [call EXCEPT !.pc = "idle", !.result = result]

\* the first await of a management call.  createQRCode: Business.findOne and
\* Website.findOne.  Every other call: getQRCodeById, which does not find a
\* QR code with isActive = false; toggleQRCodeStatus picks the service call
\* from the status that getQRCodeById returned
OwnerBegin(e, o) ==
    /\ owner[o].pc = "idle"
    /\ ownerOps < e.ownerOps
    /\ \E call \in e.calls, id \in QRIds :
          LET c == [IdleOwner EXCEPT !.op = call.op, !.arg = call.arg]
          IN  owner' = [owner EXCEPT ![o] =
                  IF call.op = "create"
                  THEN [c EXCEPT !.pc = "limit"]
                  ELSE IF ~qrcodes[id].isActive
                  THEN ended([c EXCEPT !.id = id], "not-found")
                  ELSE IF call.op = "toggle"
                  THEN [c EXCEPT !.pc = "toggled",
                                 !.id = id,
                                 !.op = IF qrcodes[id].status = QR_STATUS.ACTIVE
                                        THEN "deactivate" ELSE "activate"]
                  ELSE [c EXCEPT !.pc = "checked",
                                 !.id = id,
                                 !.loaded = qrcodes[id].targetUrl]]
    /\ ownerOps' = ownerOps + 1
    /\ UNCHANGED <<parsed, qrcodes, scans, req, now, started, counted>>

\* toggleQRCodeStatus: the getQRCodeById of the service call it picked
OwnerRecheck(e, o) ==
    /\ owner[o].pc = "toggled"
    /\ owner' = [owner EXCEPT ![o] =
                    IF qrcodes[owner[o].id].isActive
                    THEN [@ EXCEPT !.pc = "checked"]
                    ELSE ended(@, "not-found")]
    /\ UNCHANGED <<parsed, qrcodes, scans, req, now, started, ownerOps, counted>>

\* a deleteQRCode that removes the document from the collection
OwnerUpdateHardDelete(e, o) ==
    /\ owner[o].pc = "checked"
    /\ owner[o].op \in {"delete", "status", "targetUrl", "regenerate"}
    /\ qrcodes' =
          IF owner[o].op = "delete"
          THEN [i \in QRIds \ {owner[o].id} |-> qrcodes[i]]
          ELSE IF owner[o].op = "status"
          THEN [qrcodes EXCEPT ![owner[o].id].status = owner[o].arg]
          ELSE IF owner[o].op = "regenerate"
          THEN [qrcodes EXCEPT ![owner[o].id].qrImageUrl = IMAGE_URL_NEW]
          ELSE [qrcodes EXCEPT ![owner[o].id].targetUrl  = owner[o].arg,
                               ![owner[o].id].qrImageUrl = IMAGE_URL_NEW]
    /\ owner' = [owner EXCEPT ![o] = ended(@, "ok")]
    /\ UNCHANGED <<parsed, scans, req, now, started, ownerOps, counted>>

\* updateQRCode, deleteQRCode and regenerateQRImage:
\* QRCode.findByIdAndUpdate(id, {$set: ...}); a new targetUrl comes with a
\* regenerated image
OwnerUpdate(e, o) ==
    /\ owner[o].pc = "checked"
    /\ owner[o].op \in {"delete", "status", "targetUrl", "regenerate"}
    /\ qrcodes' =
          IF owner[o].op = "delete"
          THEN [qrcodes EXCEPT ![owner[o].id].isActive  = FALSE,
                               ![owner[o].id].deletedAt = now,
                               ![owner[o].id].status    = QR_STATUS.ARCHIVED]
          ELSE IF owner[o].op = "status"
          THEN [qrcodes EXCEPT ![owner[o].id].status = owner[o].arg]
          ELSE IF owner[o].op = "regenerate"
          THEN [qrcodes EXCEPT ![owner[o].id].qrImageUrl = IMAGE_URL_NEW]
          ELSE IF owner[o].arg # owner[o].loaded
          THEN [qrcodes EXCEPT ![owner[o].id].targetUrl  = owner[o].arg,
                               ![owner[o].id].qrImageUrl = IMAGE_URL_NEW]
          ELSE [qrcodes EXCEPT ![owner[o].id].targetUrl = owner[o].arg]
    /\ owner' = [owner EXCEPT ![o] = ended(@, "ok")]
    /\ UNCHANGED <<parsed, scans, req, now, started, ownerOps, counted>>

\* activateQRCode and deactivateQRCode: QRCode.findById loads the document
\* whatever its isActive
OwnerLoad(e, o) ==
    /\ owner[o].pc = "checked"
    /\ owner[o].op \in {"activate", "deactivate"}
    /\ owner' = [owner EXCEPT ![o] =
                    [@ EXCEPT !.pc = "loaded",
                              !.loaded = qrcodes[owner[o].id].status]]
    /\ UNCHANGED <<parsed, qrcodes, scans, req, now, started, ownerOps, counted>>

\* qrcode.activate() / qrcode.deactivate(): save() sends $set {status} when
\* the assignment changed the status the document was loaded with
OwnerSave(e, o) ==
    /\ owner[o].pc = "loaded"
    /\ LET status == IF owner[o].op = "activate"
                     THEN QR_STATUS.ACTIVE ELSE QR_STATUS.INACTIVE
       IN  qrcodes' = IF status = owner[o].loaded THEN qrcodes
                      ELSE [qrcodes EXCEPT ![owner[o].id].status = status]
    /\ owner' = [owner EXCEPT ![o] = ended(@, "ok")]
    /\ UNCHANGED <<parsed, scans, req, now, started, ownerOps, counted>>

\* QRCode.isShortCodeExists
isShortCodeExists(shortCode) ==
    \E id \in QRIds : qrcodes[id].shortCode = toLowerCase(shortCode)

\* the count of checkQRLimit
countQRCodes(websiteId) ==
    Cardinality({id \in QRIds :
                    /\ qrcodes[id].websiteId = websiteId
                    /\ qrcodes[id].isActive
                    /\ qrcodes[id].status # QR_STATUS.ARCHIVED})

\* createQRCode: the answer of checkQRLimit's count; under the limit,
\* generateUniqueShortCode draws its first code and asks whether it exists
CreateLimit(e, o) ==
    /\ owner[o].pc = "limit"
    /\ \E shortCode \in e.codes :
          owner' = [owner EXCEPT ![o] =
              IF countQRCodes(@.arg) >= MAX_QR_CODES_PER_WEBSITE
              THEN ended(@, "conflict")
              ELSE [@ EXCEPT !.pc = "exists", !.code = shortCode, !.attempt = 1]]
    /\ UNCHANGED <<parsed, qrcodes, scans, req, now, started, ownerOps, counted>>

\* generateUniqueShortCode: the answer of isShortCodeExists; a free code is
\* returned, a taken one is replaced by a new draw, and after maxAttempts
\* taken codes a longer code is returned unasked
CreateExists(e, o) ==
    /\ owner[o].pc = "exists"
    /\ \E shortCode \in e.codes, longerCode \in e.longerCodes :
          owner' = [owner EXCEPT ![o] =
              IF ~isShortCodeExists(@.code)
              THEN [@ EXCEPT !.pc = "insert"]
              ELSE IF @.attempt < maxAttempts
              THEN [@ EXCEPT !.code = shortCode, !.attempt = @ + 1]
              ELSE [@ EXCEPT !.pc = "insert", !.code = longerCode,
                             !.longer = TRUE]]
    /\ UNCHANGED <<parsed, qrcodes, scans, req, now, started, ownerOps, counted>>

\* the document QRCode.create stores: the schema trims and lowercases
\* shortCode, status is active and isActive defaults to true
newQRCode(call) ==
    [websiteId   |-> call.arg,
     shortCode   |-> toLowerCase(Trim(call.code)),
     targetUrl   |-> URL_MENU,
     qrImageUrl  |-> IMAGE_URL,
     status      |-> QR_STATUS.ACTIVE,
     isActive    |-> TRUE,
     deletedAt   |-> NoDate,
     totalScans  |-> 0,
     uniqueScans |-> 0,
     lastScanAt  |-> NoDate]

\* a QRCode.create on a collection with no unique index on shortCode
CreateInsertNoIndex(e, o) ==
    /\ owner[o].pc = "insert"
    /\ LET id == QRId(Cardinality(QRIds) + 1)
       IN  /\ qrcodes' = [i \in QRIds \cup {id} |->
                            IF i = id THEN newQRCode(owner[o]) ELSE qrcodes[i]]
           /\ owner' = [owner EXCEPT ![o] = ended([@ EXCEPT !.id = id], "created")]
    /\ UNCHANGED <<parsed, scans, req, now, started, ownerOps, counted>>

\* createQRCode: the image is generated and uploaded, then QRCode.create
\* inserts the document; the unique index on shortCode refuses a stored
\* value that is taken (duplicate key error)
CreateInsert(e, o) ==
    /\ owner[o].pc = "insert"
    /\ LET id == QRId(Cardinality(QRIds) + 1)
           document == newQRCode(owner[o])
           duplicate == \E i \in QRIds : qrcodes[i].shortCode = document.shortCode
       IN  /\ qrcodes' = IF duplicate THEN qrcodes
                         ELSE [i \in QRIds \cup {id} |->
                                 IF i = id THEN document ELSE qrcodes[i]]
           /\ owner' = [owner EXCEPT ![o] =
                 IF duplicate THEN ended(@, "duplicate")
                 ELSE ended([@ EXCEPT !.id = id], "created")]
    /\ UNCHANGED <<parsed, scans, req, now, started, ownerOps, counted>>

(***************************************************************************)
(* Environments and specifications.                                        *)
(***************************************************************************)
IP_PUBLIC == <<"1", ".", "2", ".", "3", ".", "4">>
IP_PRIVATE == <<"1", "0", ".", "0", ".", "0", ".", "5">>
IP_V6_FULL == <<"2", "0", "0", "1", ":", "d", "b", "8", ":", "0", ":", "0",
                ":", "0", ":", "0", ":", "0", ":", "1">>
IP_V6_COMPRESSED == <<"2", "0", "0", "1", ":", "d", "b", "8", ":", ":", "1">>
IP_LOOPBACK == <<"1", "2", "7", ".", "0", ".", "0", ".", "1">>
IP_LOOPBACK_V6 == <<":", ":", "1">>
IP_V4_MAPPED == <<":", ":", "f", "f", "f", "f", ":", "1", ".", "2", ".", "3", ".", "4">>

\* a GET /s/:shortCode request whose client address Express reports in req.ip
Request(shortCode, ip, userAgent) ==
    [endpoint |-> "redirect", shortCode |-> shortCode, forwarded |-> <<>>,
     cfConnectingIp |-> <<>>, realIp |-> <<>>, ip |-> ip, userAgent |-> userAgent]

\* a GET /s/:shortCode/preview request
Preview(shortCode, ip, userAgent) ==
    [Request(shortCode, ip, userAgent) EXCEPT !.endpoint = "preview"]

\* concurrent scans of the one code, no failures
Concurrent ==
    [requests |-> {Request(CODE_MENU, IP_PUBLIC, ua) : ua \in {UA_IPHONE, UA_MALFORMED}},
     store    |-> {"ok"},
     parser   |-> {"ok"},
     primary  |-> {"ok", "error"},
     backup   |-> {"ok"},
     inflight |-> MaxInFlight,
     budget   |-> MaxRequests,
     tick     |-> 12 * 60 * 60,
     ticks    |-> 0,
     ownerOps |-> 0,
     owners   |-> 1,
     calls    |-> {}]

\* scans of the one code, one at a time, while the clock passes midnight
Days ==
    [requests |-> {Request(CODE_MENU, IP_PUBLIC, ua) : ua \in {UA_IPHONE, UA_MALFORMED}},
     store    |-> {"ok"},
     parser   |-> {"ok"},
     primary  |-> {"ok", "error"},
     backup   |-> {"ok"},
     inflight |-> 1,
     budget   |-> MaxDayRequests,
     tick     |-> 12 * 60 * 60,
     ticks    |-> MaxTicks,
     ownerOps |-> 0,
     owners   |-> 1,
     calls    |-> {}]

\* one request at a time, every input shape and every failure
Inputs ==
    [requests |-> {Request(c, ip, ua) :
                      c  \in {CODE_MENU, CODE_MENU_UPPER, CODE_MISSING, CODE_SHORT},
                      ip \in {IP_PUBLIC, IP_PRIVATE, IP_V6_FULL, IP_V6_COMPRESSED,
                              IP_V4_MAPPED, <<>>},
                      ua \in {UA_IPHONE, UA_MALFORMED, ""}},
     store    |-> {"ok", "error"},
     parser   |-> {"ok", "throws"},
     primary  |-> {"ok", "fail", "error"},
     backup   |-> {"ok", "error"},
     inflight |-> 1,
     budget   |-> MaxInputRequests,
     tick     |-> 12 * 60 * 60,
     ticks    |-> 0,
     ownerOps |-> 0,
     owners   |-> 1,
     calls    |-> {}]

\* scans of an existing and of a missing code, one at a time, while the owner
\* changes the code's lifecycle state
Lifecycle ==
    [requests |-> {Request(c, IP_PUBLIC, UA_IPHONE) :
                      c \in {CODE_MENU, CODE_MENU_UPPER, CODE_MISSING}},
     store    |-> {"ok"},
     parser   |-> {"ok"},
     primary  |-> {"ok", "error"},
     backup   |-> {"ok"},
     inflight |-> 1,
     budget   |-> MaxOwnerRequests,
     tick     |-> 12 * 60 * 60,
     ticks    |-> 0,
     ownerOps |-> MaxOwnerOps,
     owners   |-> 1,
     calls    |-> OwnerCalls]

\* a burst of scans from one client, one at a time, no failures
Burst ==
    [requests |-> {Request(CODE_MENU, IP_PUBLIC, UA_IPHONE)},
     store    |-> {"ok"},
     parser   |-> {"ok"},
     primary  |-> {"ok", "error"},
     backup   |-> {"ok"},
     inflight |-> 1,
     budget   |-> maxScansPerMinute + 1,
     tick     |-> 30,
     ticks    |-> MaxBurstTicks,
     ownerOps |-> 0,
     owners   |-> 1,
     calls    |-> {}]

\* both endpoints, one request at a time, every short-code shape
Endpoints ==
    [requests |-> {Request(c, ip, UA_IPHONE) :
                      c  \in {CODE_MENU, CODE_MISSING, CODE_SHORT, CODE_LONG,
                              CODE_BADCHAR},
                      ip \in {IP_PUBLIC, IP_V4_MAPPED}}
                  \cup
                  {Preview(c, ip, UA_IPHONE) :
                      c  \in {CODE_MENU, CODE_MISSING, CODE_SHORT, CODE_LONG,
                              CODE_BADCHAR},
                      ip \in {IP_PUBLIC, IP_V4_MAPPED}},
     store    |-> {"ok", "error"},
     parser   |-> {"ok"},
     primary  |-> {"ok", "error"},
     backup   |-> {"ok"},
     inflight |-> 1,
     budget   |-> MaxEndpointRequests,
     tick     |-> 12 * 60 * 60,
     ticks    |-> 0,
     ownerOps |-> 0,
     owners   |-> 1,
     calls    |-> {}]

\* one request at a time from every kind of address; the providers answer,
\* fail or stay silent until the timeout, the store answers or fails
Failures ==
    [requests |-> {Request(c, ip, UA_IPHONE) :
                      c  \in {CODE_MENU, CODE_MISSING},
                      ip \in {IP_PUBLIC, IP_PRIVATE, IP_LOOPBACK, IP_LOOPBACK_V6,
                              IP_V6_FULL, <<>>}},
     store    |-> {"ok", "error"},
     parser   |-> {"ok", "throws"},
     primary  |-> {"ok", "fail", "error", TIMEOUT},
     backup   |-> {"ok", "error", TIMEOUT},
     inflight |-> 1,
     budget   |-> MaxFailureRequests,
     tick     |-> 12 * 60 * 60,
     ticks    |-> 0,
     ownerOps |-> 0,
     owners   |-> 1,
     calls    |-> {}]

\* concurrent management calls, no scans; generateSafeShortCode draws a
\* code that is taken (in another case) or a free one
Management ==
    [requests    |-> {},
     store       |-> {"ok"},
     parser      |-> {"ok"},
     primary     |-> {"ok"},
     backup      |-> {"ok"},
     inflight    |-> 1,
     budget      |-> 0,
     tick        |-> 12 * 60 * 60,
     ticks       |-> 0,
     ownerOps    |-> MaxManagementOps,
     owners      |-> MaxManagers,
     calls       |-> ManagementCalls,
     codes       |-> {CODE_MENU_UPPER, CODE_NEW},
     longerCodes |-> {CODE_LONGER}]

\* the form factors (device.type) and OS names ua-parser-js reports; None
\* stands for undefined
FormFactors == {None, "desktop", "mobile", "tablet", "smarttv", "console",
                "wearable", "embedded"}
OSNames == {None, "iOS", "Android", "Windows", "Windows Phone", "Linux"}

\* calls of parseUserAgent with every kind of argument and parser result
Classifier ==
    [userAgents |-> {"", NOT_A_STRING, UA_WINDOWS},
     parser     |-> {"ok", "throws"},
     results    |-> [type : FormFactors, os : OSNames, browser : {None, "Chrome"}],
     inflight   |-> 1,
     owners     |-> 1]

Scan(e, r) ==
    \/ Receive(e, r)
    \/ RateCheck(e, r)
    \/ Resolve(e, r)
    \/ GeoPrimary(e, r)
    \/ GeoBackup(e, r)
    \/ Unique(e, r)
    \/ Record(e, r)
    \/ Stats(e, r)

Init == InitWith(Concurrent)
Next == \E r \in 1..Concurrent.inflight : Scan(Concurrent, r)
Spec == Init /\ [][Next]_vars

InitDays == InitWith(Days)
NextDays == (\E r \in 1..Days.inflight : Scan(Days, r)) \/ Tick(Days)
SpecDays == InitDays /\ [][NextDays]_vars

InitInputs == InitWith(Inputs)
NextInputs == \E r \in 1..Inputs.inflight : Scan(Inputs, r)
SpecInputs == InitInputs /\ [][NextInputs]_vars

InitLifecycle == InitWith(Lifecycle)
NextLifecycle ==
    \/ \E r \in 1..Lifecycle.inflight : Scan(Lifecycle, r)
    \/ \E o \in 1..Lifecycle.owners : OwnerBegin(Lifecycle, o)
    \/ \E o \in 1..Lifecycle.owners : OwnerUpdate(Lifecycle, o)
    \/ \E o \in 1..Lifecycle.owners : OwnerLoad(Lifecycle, o)
    \/ \E o \in 1..Lifecycle.owners : OwnerSave(Lifecycle, o)
SpecLifecycle == InitLifecycle /\ [][NextLifecycle]_vars

InitManagement == InitWith(Management)
NextManagement ==
    \/ \E o \in 1..Management.owners : OwnerBegin(Management, o)
    \/ \E o \in 1..Management.owners : OwnerRecheck(Management, o)
    \/ \E o \in 1..Management.owners : OwnerUpdate(Management, o)
    \/ \E o \in 1..Management.owners : OwnerLoad(Management, o)
    \/ \E o \in 1..Management.owners : OwnerSave(Management, o)
    \/ \E o \in 1..Management.owners : CreateLimit(Management, o)
    \/ \E o \in 1..Management.owners : CreateExists(Management, o)
    \/ \E o \in 1..Management.owners : CreateInsert(Management, o)
SpecManagement == InitManagement /\ [][NextManagement]_vars

InitClassifier == InitWith(Classifier)
NextClassifier == Classify(Classifier)
SpecClassifier == InitClassifier /\ [][NextClassifier]_vars

InitEndpoints == InitWith(Endpoints)
NextEndpoints == \E r \in 1..Endpoints.inflight : Scan(Endpoints, r)
SpecEndpoints == InitEndpoints /\ [][NextEndpoints]_vars

InitFailures == InitWith(Failures)
NextFailures == \E r \in 1..Failures.inflight : Scan(Failures, r)
SpecFailures == InitFailures /\ [][NextFailures]_vars

\* every awaited call of a request in flight is answered: the store's driver
\* answers or raises, a provider answers or the timeout raises
SpecLive ==
    SpecFailures /\ \A r \in 1..Failures.inflight : WF_vars(Scan(Failures, r))

InitBurst == InitWith(Burst)
NextBurst == (\E r \in 1..Burst.inflight : Scan(Burst, r)) \/ Tick(Burst)
SpecBurst == InitBurst /\ [][NextBurst]_vars

(***************************************************************************)
(* Properties.                                                             *)
(***************************************************************************)
Slots == DOMAIN req
Finished(r) == req[r].pc = "done"
Persisted(r) == req[r].scanId > 0
DayOf(t) == t \div SecondsPerDay

\* C1: every request for a valid short code that resolved to an active QR
\* code, with the scan store accepting the insert, is answered 302 with
\* Location the code's targetUrl, whatever the client IP string and the
\* user-agent
C1_RedirectForEveryClient ==
    \A r \in Slots :
        (Finished(r) /\ req[r].doc.found /\ "record" \notin req[r].faults)
            => req[r].res = redirect(req[r].doc.targetUrl)

\* C2: a request for a deactivated, archived or soft-deleted code gets the
\* response a request for a missing code gets: 404 with the same body,
\* whatever the lifecycle state
C2_InactiveLooksMissing ==
    \A r \in Slots :
        (Finished(r) /\ req[r].lifecycle \in {"missing", "inactive", "archived", "deleted"})
            => req[r].res = renderErrorPage(MSG_NOT_FOUND)

C2_Witness ==
    \E r \in Slots :
        /\ Finished(r)
        /\ req[r].lifecycle = "deleted"
        /\ req[r].res.status = 404

\* C3: when every request has ended, totalScans is the number of requests
\* whose scan was persisted and whose counter save returned without error
C3_TotalScansCountsEveryScan ==
    (\A r \in Slots : req[r].pc \in {"idle", "done"})
        => \A id \in QRIds : qrcodes[id].totalScans = counted

\* C4: uniqueScans never exceeds totalScans
C4_UniqueAtMostTotal ==
    \A id \in QRIds : qrcodes[id].uniqueScans <= qrcodes[id].totalScans


\* the scans of the same client against the same code that were stored
\* before request r arrived
EarlierScans(r) ==
    {i \in 1..req[r].scansAtStart :
        /\ i <= Len(scans)
        /\ scans[i].qrCodeId = req[r].doc.id
        /\ scans[i].ipAddress = req[r].ip
        /\ scans[i].userAgent = req[r].userAgent}
\* request r has computed isUnique, and it arrived on the calendar day of
\* the timestamp of its ScanEvent
UniquenessComputed(r) ==
    /\ req[r].doc.found
    /\ req[r].scannedAt # NoDate
    /\ DayOf(req[r].scannedAt) = DayOf(req[r].startedAt)

\* C5: a scan of a calendar day on which a scan of the same (ip, user-agent)
\* against the same code was already stored is computed isUnique = false; a
\* scan that arrives when every stored scan of that (ip, user-agent) is of
\* an earlier day is computed isUnique = true
C5_SecondScanSameDayNotUnique ==
    \A r \in Slots :
        UniquenessComputed(r) =>
            /\ (\E i \in EarlierScans(r) :
                    DayOf(scans[i].scannedAt) = DayOf(req[r].startedAt))
                   => ~req[r].isUnique
            /\ (\A i \in EarlierScans(r) :
                    DayOf(scans[i].scannedAt) < DayOf(req[r].startedAt))
                   => req[r].isUnique

\* the ScanEvents of request r's code and IP that lay within the trailing
\* 60 seconds when the request arrived
RecentScans(r) ==
    {i \in 1..req[r].scansAtStart :
        /\ i <= Len(scans)
        /\ scans[i].qrCodeId = req[r].doc.id
        /\ scans[i].ipAddress = req[r].ip
        /\ scans[i].scannedAt >= req[r].startedAt - RateWindowSeconds}

\* C6: a scan of an active code is redirected exactly when fewer than 10
\* ScanEvents of its (code, IP) lie within the trailing 60 seconds, and a
\* scan that is not redirected stores no ScanEvent
C6_EleventhScanRejected ==
    \A r \in Slots :
        (Finished(r) /\ req[r].doc.found) =>
            /\ req[r].res.status = 302
                   <=> Cardinality(RecentScans(r)) < maxScansPerMinute
            /\ req[r].res.status # 302 => ~Persisted(r)

PipelineOrder ==
    <<"RECEIVED", "CODE_RESOLVED", "RATE_CHECKED", "RECORDED",
      "COUNTERS_UPDATED", "REDIRECTED">>
StepRank(s) == CHOOSE i \in 1..Len(PipelineOrder) : PipelineOrder[i] = s
IsStep(s) == s # "REJECTED"

\* C7: the steps a request has taken are in the order RECEIVED,
\* CODE_RESOLVED, RATE_CHECKED, RECORDED, COUNTERS_UPDATED, REDIRECTED, and
\* a request whose code did not resolve has made no rate-limit read
C7_PipelineOrder ==
    \A r \in Slots :
        LET steps == SelectSeq(req[r].log, IsStep)
        IN  /\ \A i, j \in 1..Len(steps) :
                   i < j => StepRank(steps[i]) < StepRank(steps[j])
            /\ (Finished(r) /\ req[r].failedAt = "resolve")
                   => \A i \in 1..Len(steps) : steps[i] # "RATE_CHECKED"

\* C8: a request whose ScanEvent could not be persisted ends with the 404
\* error page, has stored no ScanEvent, and has left totalScans, uniqueScans
\* and lastScanAt of the QR code as it loaded them
C8_PersistFailureRejects ==
    \A r \in Slots :
        (Finished(r) /\ req[r].failedAt = "record") =>
            /\ req[r].res = renderErrorPage(MSG_NOT_FOUND)
            /\ ~Persisted(r)
            /\ Len(scans) = req[r].scansAtStart
            /\ qrcodes[req[r].doc.id].totalScans = req[r].doc.totalScans
            /\ qrcodes[req[r].doc.id].uniqueScans = req[r].doc.uniqueScans
            /\ qrcodes[req[r].doc.id].lastScanAt = req[r].doc.lastScanAt

C8_Witness ==
    \E r \in Slots :
        /\ Finished(r)
        /\ req[r].failedAt = "record"
        /\ "record" \in req[r].faults
        /\ req[r].res.status = 404

\* C9: a request whose counter save failed after its ScanEvent was stored
\* ends with 302 to the target URL, and its ScanEvent is in the store
C9_CounterFailureSwallowed ==
    \A r \in Slots :
        (Finished(r) /\ "stats" \in req[r].faults) =>
            /\ req[r].res = redirect(req[r].doc.targetUrl)
            /\ req[r].scanId \in 1..Len(scans)
            /\ scans[req[r].scanId].qrCodeId = req[r].doc.id
            /\ scans[req[r].scanId].fingerprint = req[r].fp

C9_Witness ==
    \E r \in Slots :
        /\ Finished(r)
        /\ "stats" \in req[r].faults
        /\ req[r].res.status = 302
        /\ Persisted(r)

GeoFailed(r) == req[r].geoCalls = <<<<"primary", "error">>, <<"backup", "error">>>>
ParseFailed(r) == req[r].userAgent = UA_MALFORMED \/ "parser" \in req[r].faults

\* C10: a scan of an active code whose geolocation providers both failed, or
\* whose user-agent could not be parsed, is stored and redirected with 302
\* while the store accepts the insert; its ScanEvent has country 'Unknown'
\* in the first case and device 'Other' in the second
C10_DegradedScanStillRedirects ==
    \A r \in Slots :
        (/\ Finished(r)
         /\ req[r].doc.found
         /\ "record" \notin req[r].faults
         /\ GeoFailed(r) \/ ParseFailed(r)) =>
            /\ Persisted(r)
            /\ req[r].res = redirect(req[r].doc.targetUrl)
            /\ GeoFailed(r) => scans[req[r].scanId].country = "Unknown"
            /\ ParseFailed(r) => scans[req[r].scanId].device = DEVICE_TYPE.OTHER_DEVICE


\* C11: a request whose rate-limit count query raised an error is not
\* rejected by the limiter: it leaves the rate check for the Code Resolver
C11_RateLimiterFailsOpen ==
    \A r \in Slots :
        "rate" \in req[r].faults =>
            /\ req[r].pc # "rate"
            /\ req[r].failedAt # "rate"
            /\ req[r].res # renderErrorPage(MSG_RATE_LIMIT)
            /\ req[r].pc = "done" /\ req[r].faults = {"rate"} /\ req[r].doc.found
                   => req[r].res = redirect(req[r].doc.targetUrl) \/ req[r].failedAt = "record"

C11_Witness ==
    \E r \in Slots :
        /\ Finished(r)
        /\ "rate" \in req[r].faults
        /\ req[r].res.status = 302
        /\ Persisted(r)

PassesRecording(r) == req[r].pc = "record" /\ req'[r].pc = "stats"

\* C12: a step stores one ScanEvent for each request that passes the
\* recording step and none otherwise; stored events are never changed or
\* removed; requests hold different events, and a redirected request holds
\* the event made from its own data
C12_OneScanEventPerRequest ==
    [][/\ Len(scans') = Len(scans) + Cardinality({r \in Slots : PassesRecording(r)})
       /\ \A i \in 1..Len(scans) : scans'[i] = scans[i]
       /\ \A r \in Slots :
              PassesRecording(r) =>
                  /\ req'[r].scanId = Len(scans')
                  /\ scans'[Len(scans')] = scanDocument(r)
       /\ \A r1, r2 \in Slots :
              (r1 # r2 /\ req'[r1].scanId > 0) => req'[r1].scanId # req'[r2].scanId
       /\ \A r \in Slots :
              req'[r].res.status = 302 =>
                  /\ req'[r].scanId \in 1..Len(scans')
                  /\ scans'[req'[r].scanId].fingerprint = req'[r].fp
                  /\ scans'[req'[r].scanId].scannedAt = req'[r].scannedAt]_vars

C12_Witness ==
    /\ \A r \in Slots : Finished(r) /\ req[r].res.status = 302
    /\ Cardinality({req[r].scanId : r \in Slots}) = Cardinality(Slots)
    /\ \E r1, r2 \in Slots :
           /\ r1 # r2
           /\ req[r1].fp = req[r2].fp
    /\ Len(scans) = started
    /\ started >= 2


InFlight(r) == req[r].pc \notin {"idle", "done"}

\* C13: every request in flight eventually ends, redirected or rejected,
\* when every call it awaits is answered: by a result, an error or the
\* providers' timeout
C13_EveryRequestEnds ==
    \A r \in 1..Failures.inflight : InFlight(r) ~> Finished(r)

C13_Witness ==
    \E r \in Slots :
        /\ Finished(r)
        /\ req[r].geoCalls = <<<<"primary", TIMEOUT>>, <<"backup", TIMEOUT>>>>
        /\ "stats" \in req[r].faults
        /\ req[r].res.status = 302

Rejected(r) == Finished(r) /\ req[r].res.status # 302 /\ req[r].endpoint = "redirect"

\* C14: every rejected GET /s/:shortCode request is answered with status 404
\* and the HTML error page
C14_RejectionIs404Html ==
    \A r \in Slots :
        Rejected(r) => req[r].res.status = 404 /\ req[r].res.kind = "html"

\* C15: every rejected GET /s/:shortCode request receives the body that a
\* request for a code that does not exist receives
C15_OneErrorPage ==
    \A r \in Slots :
        Rejected(r) => req[r].res.body = renderErrorPage(MSG_NOT_FOUND).body

\* a short code outside the pattern ^[a-zA-Z0-9-]+$ or the length 6..20
InvalidShape(code) ==
    \/ Len(code) < 6
    \/ Len(code) > 20
    \/ \E i \in 1..Len(code) :
          code[i] \notin Digits \cup LowerLetters \cup UpperLetters \cup {"-"}

\* C16: a request of either endpoint whose short code has an invalid
\* shape (pattern ^[a-zA-Z0-9-]+$, length 6..20) ends at once, with no call
\* to the QRCode store or the ScanEvent store made or pending
C16_InvalidShapeTouchesNoStore ==
    \A r \in Slots :
        (req[r].pc # "idle" /\ InvalidShape(req[r].shortCode)) =>
            /\ Finished(r)
            /\ req[r].log = <<"REJECTED">>
            /\ req[r].failedAt = ""
            /\ req[r].lifecycle = ""
            /\ ~req[r].doc.found
            /\ ~Persisted(r)
            /\ Len(scans) = req[r].scansAtStart

C16_Witness ==
    \E r \in Slots :
        /\ Finished(r)
        /\ req[r].endpoint = "preview"
        /\ req[r].shortCode = CODE_BADCHAR
        /\ req[r].res.status = 422
        /\ started = 2
        /\ Len(scans) = 1

InLog(r, s) == \E i \in 1..Len(req[r].log) : req[r].log[i] = s

\* C17: a finished preview request for a short code of valid shape has run
\* the pipeline of the redirect endpoint: an accepted one has passed the
\* rate-limit gate and stored its ScanEvent and is answered 200 JSON with
\* targetUrl, a rejected one is answered 404 JSON
C17_PreviewRunsSamePipeline ==
    \A r \in Slots :
        (/\ Finished(r)
         /\ req[r].endpoint = "preview"
         /\ shortCodeSchema(req[r].shortCode)) =>
            IF InLog(r, "REDIRECTED")
            THEN /\ req[r].res = previewOk(req[r].doc.targetUrl)
                 /\ Persisted(r)
                 /\ InLog(r, "RATE_CHECKED")
            ELSE req[r].res = previewError

ResolverReturned(r) == req[r].doc.found /\ req[r].pc \notin {"geo1", "geo2"}

\* C18: when the call to the primary provider did not give a location, the
\* resolver has called the secondary provider before it returns
C18_PrimaryFailureTriesSecondary ==
    \A r \in Slots :
        (/\ ResolverReturned(r)
         /\ Len(req[r].geoCalls) >= 1
         /\ req[r].geoCalls[1] # <<"primary", "ok">>) =>
            /\ Len(req[r].geoCalls) = 2
            /\ req[r].geoCalls[2][1] = "backup"

\* C19: for an address that is invalid, private or loopback the resolver
\* returns country 'Local' and city 'Local' and calls no provider
C19_LocalAddressesSkipLookup ==
    \A r \in Slots :
        (ResolverReturned(r) /\ geoPrecheck(req[r].ip) # "fetch") =>
            /\ req[r].geo.country = "Local"
            /\ req[r].geo.city = "Local"
            /\ req[r].geoCalls = <<>>

\* C20: no step decreases totalScans or uniqueScans of a QR code
C20_CountersNeverDecrease ==
    [][\A id \in QRIds :
           /\ qrcodes'[id].totalScans >= qrcodes[id].totalScans
           /\ qrcodes'[id].uniqueScans >= qrcodes[id].uniqueScans]_vars


Websites == {WEBSITE_1, WEBSITE_2}
ActiveCodes(websiteId) ==
    {id \in QRIds : /\ qrcodes[id].websiteId = websiteId
                    /\ qrcodes[id].isActive = TRUE
                    /\ qrcodes[id].status = QR_STATUS.ACTIVE}

\* C21: at any time a website has at most one QR code with isActive = true
\* and status = active
C21_OneActiveCodePerWebsite ==
    \A w \in Websites : Cardinality(ActiveCodes(w)) <= 1

\* C22: no two QRCode documents share a shortCode, compared without regard
\* to case
C22_ShortCodesUnique ==
    \A i \in QRIds : \A j \in QRIds :
        i # j => toLowerCase(qrcodes[i].shortCode) # toLowerCase(qrcodes[j].shortCode)

C22_Witness ==
    /\ Cardinality(QRIds) = 2
    /\ \E o \in DOMAIN owner :
          /\ owner[o].op = "create"
          /\ owner[o].longer
          /\ owner[o].result = "duplicate"

\* C23: the qrCodeId of every stored ScanEvent names a QRCode document of
\* the collection, no step removes a QRCode document, and no step removes
\* or rewrites a stored ScanEvent
C23_ScanEventsKeepTheirCode ==
    [][/\ \A id \in QRIds : id \in DOMAIN qrcodes'
       /\ Len(scans') >= Len(scans)
       /\ \A i \in 1..Len(scans) : scans'[i] = scans[i]
       /\ \A i \in 1..Len(scans') : scans'[i].qrCodeId \in DOMAIN qrcodes']_vars

C23_Witness ==
    \E i \in 1..Len(scans) :
        /\ qrcodes[scans[i].qrCodeId].isActive = FALSE
        /\ qrcodes[scans[i].qrCodeId].status = QR_STATUS.ARCHIVED
        /\ qrcodes[scans[i].qrCodeId].deletedAt # NoDate

\* C24: the counter save of a scan leaves status, isActive, targetUrl and
\* every other field the owner sets as they are in the store at the moment
\* of the save, whatever the scan loaded
C24_CounterSaveKeepsOwnerFields ==
    [][\A r \in Slots :
          (req[r].pc = "stats" /\ req'[r].pc = "done") =>
              \A id \in QRIds :
                  /\ qrcodes'[id].status     = qrcodes[id].status
                  /\ qrcodes'[id].isActive   = qrcodes[id].isActive
                  /\ qrcodes'[id].targetUrl  = qrcodes[id].targetUrl
                  /\ qrcodes'[id].deletedAt  = qrcodes[id].deletedAt
                  /\ qrcodes'[id].qrImageUrl = qrcodes[id].qrImageUrl
                  /\ qrcodes'[id].shortCode  = qrcodes[id].shortCode]_vars

C24_Witness ==
    \E r \in Slots :
        /\ Finished(r)
        /\ InLog(r, "COUNTERS_UPDATED")
        /\ qrcodes[req[r].doc.id].totalScans = req[r].doc.totalScans + 1
        /\ req[r].doc.status = QR_STATUS.ACTIVE
        /\ qrcodes[req[r].doc.id].status = QR_STATUS.INACTIVE
        /\ req[r].doc.targetUrl = URL_MENU
        /\ qrcodes[req[r].doc.id].targetUrl = URL_NEW

\* C25: parseUserAgent returns device Other, browser 'Unknown', os
\* 'Unknown' for an empty or non-string argument and when the parser throws;
\* otherwise the device is decided by form factor and OS name: mobile or
\* tablet gives iOS, Android or Other; no form factor or 'desktop' gives
\* iOS, Android or Desktop; any other form factor gives Other
C25_ClassifiesByFormFactorAndOS ==
    parsed.parser # "" =>
        LET type == parsed.result.type
            os   == parsed.result.os
            info == parsed.info
        IN  IF parsed.userAgent \in {"", NOT_A_STRING} \/ parsed.parser = "throws"
            THEN /\ info.device = "Other"
                 /\ info.browser = "Unknown"
                 /\ info.os = "Unknown"
            ELSE info.device =
                   IF type \in {"mobile", "tablet"}
                   THEN IF os = "iOS" THEN "iOS"
                        ELSE IF os = "Android" THEN "Android" ELSE "Other"
                   ELSE IF type \in {None, "desktop"}
                   THEN IF os \in {"iOS", "Android"} THEN os ELSE "Desktop"
                   ELSE "Other"

C25_Witness ==
    /\ parsed.userAgent = UA_WINDOWS
    /\ parsed.parser = "ok"
    /\ parsed.result.type = None
    /\ parsed.result.os = "Android"
    /\ parsed.info.device = "Android"

\* C26: when no request is in flight (requests run one at a time, the store
\* never fails), totalScans equals the number of ScanEvents of the code and
\* uniqueScans the number of distinct fingerprints among them
C26_CountersAgreeWithEvents ==
    (\A r \in Slots : req[r].pc \in {"idle", "done"}) =>
        \A id \in QRIds :
            /\ qrcodes[id].totalScans = countByQRCode(id)
            /\ qrcodes[id].uniqueScans = countUniqueByQRCode(id)

\* C27: for every QR code and client address, the ScanEvents stamped within
\* any 60 seconds number at most 10
C27_AtMostTenEventsPerWindow ==
    \A i \in 1..Len(scans) :
        Cardinality({j \in 1..Len(scans) :
                        /\ scans[j].qrCodeId = scans[i].qrCodeId
                        /\ scans[j].ipAddress = scans[i].ipAddress
                        /\ scans[j].scannedAt >= scans[i].scannedAt
                        /\ scans[j].scannedAt < scans[i].scannedAt + RateWindowSeconds})
            <= maxScansPerMinute

\* C28: every step of a request that has not resolved its code yet, the
\* step that rejects it at the rate limit or at the Code Resolver included,
\* leaves the ScanEvents and the counters of every QR code as they are, and
\* a request rejected there has stored no ScanEvent
C28_RejectedScanLeavesStore ==
    [][\A r \in Slots :
          /\ (req'[r] # req[r] /\ req[r].pc \in {"idle", "done", "rate", "resolve"}) =>
                /\ scans' = scans
                /\ \A id \in QRIds :
                      /\ qrcodes'[id].totalScans  = qrcodes[id].totalScans
                      /\ qrcodes'[id].uniqueScans = qrcodes[id].uniqueScans
                      /\ qrcodes'[id].lastScanAt  = qrcodes[id].lastScanAt
          /\ (req'[r].pc = "done" /\ req'[r].failedAt \in {"rate", "resolve"}) =>
                /\ req'[r].scanId = 0
                /\ \A i \in 1..Len(req'[r].log) :
                      req'[r].log[i] \notin {"RECORDED", "COUNTERS_UPDATED"}]_vars

C28_Witness ==
    \E r \in Slots :
        /\ Finished(r)
        /\ req[r].failedAt = "resolve"
        /\ req[r].lifecycle = QR_STATUS.INACTIVE
        /\ req[r].res.status = 404
        /\ Len(scans) = 1
        /\ \A id \in QRIds : qrcodes[id].totalScans = 1

\* C29: no step changes a QR code that is soft-deleted (isActive = false)
C29_DeletedCodeNeverChanges ==
    [][\A id \in QRIds : ~qrcodes[id].isActive => qrcodes'[id] = qrcodes[id]]_vars

\* C30: a request whose uniqueness read failed is computed unique and is
\* not rejected for it; when nothing else fails it stores its ScanEvent,
\* both counters are incremented and the answer is the 302 redirect
C30_FailedUniquenessReadCountsUnique ==
    \A r \in Slots :
        "unique" \in req[r].faults =>
            /\ req[r].isUnique
            /\ req[r].failedAt # "unique"
            /\ (/\ Finished(r)
                /\ req[r].faults \subseteq {"unique", "rate", "parser"}
                /\ req[r].failedAt # "record") =>
                   /\ req[r].res = redirect(req[r].doc.targetUrl)
                   /\ Persisted(r)
                   /\ scans[req[r].scanId].fingerprint = req[r].fp
                   /\ qrcodes[req[r].doc.id].totalScans = req[r].doc.totalScans + 1
                   /\ qrcodes[req[r].doc.id].uniqueScans = req[r].doc.uniqueScans + 1

C30_Witness ==
    \E r \in Slots :
        /\ Finished(r)
        /\ req[r].faults = {"unique"}
        /\ req[r].res.status = 302
        /\ Persisted(r)
        /\ qrcodes[req[r].doc.id].uniqueScans = 1

=============================================================================
